---- MODULE Spec2Model ----
(***************************************************************************)
(* Reactor reboot (day 22): axis-aligned integer cuboids, the difference   *)
(* of two cuboids, and the list of disjoint (state, cuboid) pairs that the *)
(* reboot steps are added to.                                              *)
(***************************************************************************)
EXTENDS Integers, Sequences, FiniteSets, TLC

VARIABLES
    self_pairs,      \* DisjointPieces.pairs
    pending_pieces,  \* add: the work-list
    state,           \* add: state of the piece being added
    piece,           \* add: the piece being added
    pairs,           \* add: the list being rebuilt by one scan
    idx,             \* add: position of the for loop in self.pairs (1-based)
    pc,              \* control point of the driver / of add
    nread,           \* lines of the input read so far
    instr,           \* the arguments of the current (or last) call of add
    grid,            \* reference: the cells that are on, set cell by cell
    line,            \* the line of the input read last
    before,          \* self.pairs when the current (or last) call of add began
    prev_instr,      \* the arguments of the call of add before that one
    seen,            \* the cells of the entries that the scan had passed when
                     \* the piece being added was put on the work-list
    pending_seen,    \* the same for each piece of the work-list
    part1,           \* first number printed
    part2,           \* second number printed
    recv,            \* unit level: the cuboid a method is called on
    op,              \* unit level: the method called
    arg,             \* unit level: its argument
    ret              \* unit level: what it returned or raised

addVars  == <<self_pairs, pending_pieces, state, piece, pairs, idx, pc, nread,
              instr, grid, line, before, prev_instr, seen, pending_seen, part1, part2>>
unitVars == <<recv, op, arg, ret>>
vars     == <<self_pairs, pending_pieces, state, piece, pairs, idx, pc, nread,
              instr, grid, line, before, prev_instr, seen, pending_seen, part1, part2,
              recv, op, arg, ret>>

----------------------------------------------------------------------------
(* Bounds *)

\* reboot steps in the input file
MaxInstr == 3
\* reboot steps use coordinates init_cube.max.x .. init_cube.max.x + MaxOver
MaxOver == 1
\* unit-level cuboids use coordinates 0 .. MaxCoord
MaxCoord == 2
\* lines that may follow the four lines of scenario 1 in the input
MaxExtra == 1
\* lines of an input whose lines need not be well-formed
MaxLines == 2

----------------------------------------------------------------------------
(* Pos and Cuboid *)

Dims == {"x", "y", "z"}

None == [none |-> TRUE]
ValueError == [raised |-> "ValueError"]
AssertionError == [raised |-> "AssertionError"]
StopIteration == [raised |-> "StopIteration"]

Pos(x, y, z) == [x |-> x, y |-> y, z |-> z]

Pos_sub(self, other) == Pos(self.x - other.x, self.y - other.y, self.z - other.z)

py_max(a, b) == IF a >= b THEN a ELSE b

py_min(a, b) == IF a <= b THEN a ELSE b

\* Cuboid(min, max): the constructor with its __post_init__ check
\* faulty variant: no check of the size
Cuboid_unchecked(min, max) == [min |-> min, max |-> max]

Cuboid(min, max) ==
    LET diff == Pos_sub(max, min)
    IN  IF diff.x < 0 \/ diff.y < 0 \/ diff.z < 0
        THEN ValueError
        ELSE [min |-> min, max |-> max]

\* faulty variant: the z range of self is taken as it is
overlap_z(self, other) ==
    Cuboid(Pos(py_max(self.min.x, other.min.x),
               py_max(self.min.y, other.min.y),
               self.min.z),
           Pos(py_min(self.max.x, other.max.x),
               py_min(self.max.y, other.max.y),
               self.max.z))

overlap(self, other) ==
    Cuboid(Pos(py_max(self.min.x, other.min.x),
               py_max(self.min.y, other.min.y),
               py_max(self.min.z, other.min.z)),
           Pos(py_min(self.max.x, other.max.x),
               py_min(self.max.y, other.max.y),
               py_min(self.max.z, other.max.z)))

s_overlap(self, other) ==
    IF overlap(self, other) = ValueError THEN None ELSE overlap(self, other)

size(self) ==
    LET diff == Pos_sub(self.max, self.min)
    IN  (diff.x + 1) * (diff.y + 1) * (diff.z + 1)

\* faulty variant: the left part keeps the plane dim=val
split_keep(self, dim, val) ==
    LET min_d == self.min[dim]
        max_d == self.max[dim]
        a == Cuboid(self.min, [self.max EXCEPT ![dim] = val])
        b == Cuboid([self.min EXCEPT ![dim] = val], self.max)
    IN  IF ~(min_d < val /\ val <= max_d) THEN ValueError
        ELSE IF a = ValueError \/ b = ValueError THEN ValueError
        ELSE IF overlap(self, a) # a THEN AssertionError
        ELSE IF overlap(self, b) # b THEN AssertionError
        ELSE IF s_overlap(a, b) # None THEN AssertionError
        ELSE IF size(self) # size(a) + size(b) THEN AssertionError
        ELSE [a |-> a, b |-> b]

\* faulty variant: the plane dim=max_d is refused
split_open(self, dim, val) ==
    LET min_d == self.min[dim]
        max_d == self.max[dim]
        a == Cuboid(self.min, [self.max EXCEPT ![dim] = val - 1])
        b == Cuboid([self.min EXCEPT ![dim] = val], self.max)
    IN  IF ~(min_d < val /\ val < max_d) THEN ValueError
        ELSE IF a = ValueError \/ b = ValueError THEN ValueError
        ELSE IF overlap(self, a) # a THEN AssertionError
        ELSE IF overlap(self, b) # b THEN AssertionError
        ELSE IF s_overlap(a, b) # None THEN AssertionError
        ELSE IF size(self) # size(a) + size(b) THEN AssertionError
        ELSE [a |-> a, b |-> b]

\* split(dim=val): [a, b], or the exception raised
split(self, dim, val) ==
    LET min_d == self.min[dim]
        max_d == self.max[dim]
        a == Cuboid(self.min, [self.max EXCEPT ![dim] = val - 1])
        b == Cuboid([self.min EXCEPT ![dim] = val], self.max)
    IN  IF ~(min_d < val /\ val <= max_d) THEN ValueError
        ELSE IF a = ValueError \/ b = ValueError THEN ValueError
        ELSE IF overlap(self, a) # a THEN AssertionError
        ELSE IF overlap(self, b) # b THEN AssertionError
        ELSE IF s_overlap(a, b) # None THEN AssertionError
        ELSE IF size(self) # size(a) + size(b) THEN AssertionError
        ELSE [a |-> a, b |-> b]

flip(pair) == [a |-> pair.b, b |-> pair.a]

\* faulty variant: the last cut is missing
NumCuts_five == 6 - 1

NumCuts == 6

\* faulty variant: the cut at the low y plane comes before the one at low x
cut_yx(k, rem, ovl) ==
    LET flipped(r) == IF r \in {ValueError, AssertionError} THEN r ELSE flip(r)
    IN  CASE k = 1 -> split(rem, "y", ovl.min.y)
          [] k = 2 -> split(rem, "x", ovl.min.x)
          [] k = 3 -> split(rem, "z", ovl.min.z)
          [] k = 4 -> flipped(split(rem, "x", ovl.max.x + 1))
          [] k = 5 -> flipped(split(rem, "y", ovl.max.y + 1))
          [] k = 6 -> flipped(split(rem, "z", ovl.max.z + 1))

\* the k-th cut function applied to rem: [a |-> disjoint, b |-> remainder]
cut(k, rem, ovl) ==
    LET plain(r) == r
        flipped(r) == IF r \in {ValueError, AssertionError} THEN r ELSE flip(r)
    IN  CASE k = 1 -> plain(split(rem, "x", ovl.min.x))
          [] k = 2 -> plain(split(rem, "y", ovl.min.y))
          [] k = 3 -> plain(split(rem, "z", ovl.min.z))
          [] k = 4 -> flipped(split(rem, "x", ovl.max.x + 1))
          [] k = 5 -> flipped(split(rem, "y", ovl.max.y + 1))
          [] k = 6 -> flipped(split(rem, "z", ovl.max.z + 1))

\* the while loop of remove, from the k-th cut on; out: the cuboids yielded
RECURSIVE remove_loop(_, _, _, _)
remove_loop(remainder, ovl, k, out) ==
    IF remainder = ovl
    THEN [yielded |-> out, raised |-> "none", remainder |-> remainder, tried |-> k - 1]
    ELSE IF k > NumCuts
    THEN [yielded |-> out, raised |-> "StopIteration", remainder |-> remainder, tried |-> k]
    ELSE LET r == cut(k, remainder, ovl)
         IN  IF r = ValueError THEN remove_loop(remainder, ovl, k + 1, out)
             ELSE IF r = AssertionError
             THEN [yielded |-> out, raised |-> "AssertionError",
                   remainder |-> remainder, tried |-> k]
             ELSE remove_loop(r.b, ovl, k + 1, Append(out, r.a))

\* faulty variant: the part common with other is yielded too
remove_gen_rest(self, other) ==
    IF overlap(self, other) = ValueError
    THEN [yielded |-> <<self>>, raised |-> "none", remainder |-> self, tried |-> 0]
    ELSE LET g == remove_loop(self, overlap(self, other), 1, <<>>)
         IN  [g EXCEPT !.yielded = Append(g.yielded, g.remainder)]

\* faulty variant: nothing is yielded when there is no overlap
remove_gen_drop(self, other) ==
    IF overlap(self, other) = ValueError
    THEN [yielded |-> <<>>, raised |-> "none", remainder |-> self, tried |-> 0]
    ELSE remove_loop(self, overlap(self, other), 1, <<>>)

\* self.remove(other): what the generator yields, and how it ends
remove_gen(self, other) ==
    IF overlap(self, other) = ValueError
    THEN [yielded |-> <<self>>, raised |-> "none", remainder |-> self, tried |-> 0]
    ELSE remove_loop(self, overlap(self, other), 1, <<>>)

\* list(self.remove(other))
remove(self, other) == remove_gen(self, other).yielded

----------------------------------------------------------------------------
(* Cells, used to state properties and to keep the reference grid *)

Cells(c) ==
    {<<x, y, z>> : x \in c.min.x .. c.max.x, y \in c.min.y .. c.max.y, z \in c.min.z .. c.max.z}

InCuboid(cell, c) ==
    /\ c.min.x <= cell[1] /\ cell[1] <= c.max.x
    /\ c.min.y <= cell[2] /\ cell[2] <= c.max.y
    /\ c.min.z <= cell[3] /\ cell[3] <= c.max.z

Ranges(C) == {r \in C \X C : r[1] <= r[2]}

\* every cuboid with coordinates in C
Cuboids(C) ==
    {[min |-> Pos(rx[1], ry[1], rz[1]), max |-> Pos(rx[2], ry[2], rz[2])] :
        rx \in Ranges(C), ry \in Ranges(C), rz \in Ranges(C)}

RECURSIVE SumSize(_)
SumSize(pieces) ==
    IF pieces = <<>> THEN 0 ELSE size(Head(pieces)) + SumSize(Tail(pieces))

----------------------------------------------------------------------------
(* The reboot driver and DisjointPieces.add *)

init_cube == Cuboid(Pos(-50, -50, -50), Pos(50, 50, 50))

Words == {"on", "off"}

InstrCoords == init_cube.max.x .. init_cube.max.x + MaxOver

InstrCuboids == Cuboids(InstrCoords)

\* the three ranges lo..hi of a line, each with lo, hi in C
Rests(C) == [Dims -> C \X C]

ValidRests(C) == {rest \in Rests(C) : \A d \in Dims : rest[d][1] <= rest[d][2]}

\* Cuboid.parse: the cuboid of "x=lo..hi,y=lo..hi,z=lo..hi"
parse(rest) ==
    IF \E d \in Dims : ~(rest[d][1] <= rest[d][2])
    THEN AssertionError
    ELSE Cuboid(Pos(rest.x[1], rest.y[1], rest.z[1]),
                Pos(rest.x[2], rest.y[2], rest.z[2]))

\* (word == "on", Cuboid.parse(rest))
parse_line(word, rest) == <<word = "on", parse(rest)>>

Init ==
    /\ self_pairs = <<>>
    /\ pending_pieces = <<>>
    /\ state = FALSE
    /\ piece = None
    /\ pairs = <<>>
    /\ idx = 0
    /\ pc = "read"
    /\ nread = 0
    /\ instr = None
    /\ grid = {}
    /\ line = None
    /\ before = <<>>
    /\ prev_instr = None
    /\ seen = {}
    /\ pending_seen = <<>>
    /\ part1 = 0
    /\ part2 = 0
    /\ recv = None
    /\ op = "none"
    /\ arg = None
    /\ ret = None

\* for line in f: pieces.add(word == "on", Cuboid.parse(rest)), up to the
\* first line of add; rest: the ranges [x |-> <<lo, hi>>, y |-> ..., z |-> ...]
ReadLine(word, rest) ==
    /\ pc = "read"
    /\ nread' = nread + 1
    /\ line' = [word |-> word, rest |-> rest]
    /\ IF parse(rest) \in {AssertionError, ValueError}
       THEN /\ pc' = "parse_error"
            /\ UNCHANGED <<instr, prev_instr, before, pending_pieces, pending_seen, grid>>
       ELSE /\ instr' = parse_line(word, rest)
            /\ prev_instr' = instr
            /\ before' = self_pairs
            /\ pending_pieces' = <<parse_line(word, rest)>>
            /\ pending_seen' = <<{}>>
            /\ grid' = IF word = "on" THEN grid \cup Cells(parse(rest))
                       ELSE grid \ Cells(parse(rest))
            /\ pc' = "while"
    /\ UNCHANGED <<self_pairs, state, piece, pairs, idx, seen, part1, part2>>
    /\ UNCHANGED unitVars

\* the cells of the boxes of the entries of prs
BoxCells(prs) == UNION {Cells(prs[k][2]) : k \in 1 .. Len(prs)}

\* while pending_pieces: pop the next piece and start a scan, or return
WhileTest ==
    /\ pc = "while"
    /\ IF pending_pieces = <<>>
       THEN /\ pc' = "read"
            /\ state' = FALSE
            /\ piece' = None
            /\ pairs' = <<>>
            /\ idx' = 0
            /\ seen' = {}
            /\ UNCHANGED <<pending_pieces, pending_seen>>
       ELSE /\ state' = Head(pending_pieces)[1]
            /\ piece' = Head(pending_pieces)[2]
            /\ pending_pieces' = Tail(pending_pieces)
            /\ seen' = Head(pending_seen)
            /\ pending_seen' = Tail(pending_seen)
            /\ pairs' = <<>>
            /\ idx' = 1
            /\ pc' = "for"
    /\ UNCHANGED <<self_pairs, nread, instr, grid, line, before, prev_instr, part1, part2>>
    /\ UNCHANGED unitVars

WithState(s, pieces) == [k \in 1 .. Len(pieces) |-> <<s, pieces[k]>>]

\* faulty variant: every overlap is taken as a union
SameState_always(s, i_state) == TRUE

\* if state == i_state
SameState(s, i_state) == s = i_state

\* faulty variant: the other pieces are not added later
deferred_pieces_none(s, new_pieces) == <<>>

\* faulty variant: the first piece is not popped before the others are added
deferred_pieces_all(s, new_pieces) == WithState(s, new_pieces)

\* (state, p) for p in new_pieces, after new_pieces.pop(0)
deferred_pieces(s, new_pieces) == WithState(s, Tail(new_pieces))

\* faulty variant: the existing piece is kept whole
difference_pairs_whole(i_state, i_piece, p) == <<<<i_state, i_piece>>>>

\* (i_state, i_p) for i_p in list(i_piece.remove(piece))
difference_pairs(i_state, i_piece, p) == WithState(i_state, remove(i_piece, p))

\* one iteration of the for loop over self.pairs
ForBody ==
    /\ pc = "for"
    /\ idx <= Len(self_pairs)
    /\ LET i_state == self_pairs[idx][1]
           i_piece == self_pairs[idx][2]
       IN  IF overlap(i_piece, piece) = ValueError
           THEN /\ pairs' = Append(pairs, self_pairs[idx])
                /\ idx' = idx + 1
                /\ UNCHANGED <<self_pairs, pending_pieces, piece, pc>>
           ELSE IF SameState(state, i_state)
           THEN LET g == remove_gen(piece, i_piece)
                    new_pieces == g.yielded
                IN  IF g.raised # "none"
                    THEN /\ pc' = "error"
                         /\ UNCHANGED <<self_pairs, pending_pieces, piece, pairs, idx>>
                    ELSE IF new_pieces = <<>>
                    THEN /\ pairs' = pairs \o SubSeq(self_pairs, idx, Len(self_pairs))
                         /\ self_pairs' = pairs'
                         /\ pc' = "while"
                         /\ UNCHANGED <<pending_pieces, piece, idx>>
                    ELSE /\ pairs' = Append(pairs, self_pairs[idx])
                         /\ piece' = Head(new_pieces)
                         /\ pending_pieces' =
                                pending_pieces \o deferred_pieces(state, new_pieces)
                         /\ idx' = idx + 1
                         /\ UNCHANGED <<self_pairs, pc>>
           ELSE LET g == remove_gen(i_piece, piece)
                IN  IF g.raised # "none"
                    THEN /\ pc' = "error"
                         /\ UNCHANGED <<self_pairs, pending_pieces, piece, pairs, idx>>
                    ELSE /\ pairs' = pairs \o difference_pairs(i_state, i_piece, piece)
                         /\ idx' = idx + 1
                         /\ UNCHANGED <<self_pairs, pending_pieces, piece, pc>>
    /\ pending_seen' = pending_seen \o
            [k \in 1 .. Len(pending_pieces') - Len(pending_pieces) |-> BoxCells(pairs')]
    /\ UNCHANGED <<state, nread, instr, grid, line, before, prev_instr, seen, part1, part2>>
    /\ UNCHANGED unitVars

\* the else of the for loop, and self.pairs = pairs
ForElse ==
    /\ pc = "for"
    /\ idx > Len(self_pairs)
    /\ pairs' = Append(pairs, <<state, piece>>)
    /\ self_pairs' = pairs'
    /\ pc' = "while"
    /\ UNCHANGED <<pending_pieces, state, piece, idx, nread, instr, grid, line, before,
                   prev_instr, seen, pending_seen, part1, part2>>
    /\ UNCHANGED unitVars

RECURSIVE OnPieces(_)
\* [p for s, p in prs if s]
OnPieces(prs) ==
    IF prs = <<>> THEN <<>>
    ELSE (IF Head(prs)[1] THEN <<Head(prs)[2]>> ELSE <<>>) \o OnPieces(Tail(prs))

RECURSIVE InitPieces(_)
\* init_pieces: [p for s, p in prs if s and p.s_overlap(init_cube) is not None]
InitPieces(prs) ==
    IF prs = <<>> THEN <<>>
    ELSE (IF Head(prs)[1] /\ s_overlap(Head(prs)[2], init_cube) # None
          THEN <<Head(prs)[2]>> ELSE <<>>) \o InitPieces(Tail(prs))

\* end of the input: the two sums printed
Report ==
    /\ pc = "read"
    /\ part1' = SumSize(InitPieces(self_pairs))
    /\ part2' = SumSize(OnPieces(self_pairs))
    /\ pc' = "done"
    /\ UNCHANGED <<self_pairs, pending_pieces, state, piece, pairs, idx, nread, instr, grid,
                   line, before, prev_instr, seen, pending_seen>>
    /\ UNCHANGED unitVars

\* the next line of an input of at most MaxInstr well-formed lines
ReadValid ==
    /\ nread < MaxInstr
    /\ \E word \in Words, rest \in ValidRests(InstrCoords) : ReadLine(word, rest)

Next ==
    \/ ReadValid
    \/ WhileTest
    \/ ForBody
    \/ ForElse
    \/ Report

Spec == Init /\ [][Next]_vars

----------------------------------------------------------------------------
(* The driver on one given input *)

\* the ranges lo..hi on all three axes
Cube(lo, hi) == [d \in Dims |-> <<lo, hi>>]

Scenario1 ==
    << [word |-> "on",  rest |-> Cube(10, 12)],
       [word |-> "on",  rest |-> Cube(11, 13)],
       [word |-> "off", rest |-> Cube(9, 11)],
       [word |-> "on",  rest |-> Cube(10, 10)] >>

\* a line that may follow scenario 1: either word with one of its ranges
ExtraLines == {[word |-> w, rest |-> Scenario1[k].rest] : w \in Words, k \in 1 .. Len(Scenario1)}

\* the next line of an input that begins with Scenario1
ReadScenario ==
    IF nread < Len(Scenario1)
    THEN ReadLine(Scenario1[nread + 1].word, Scenario1[nread + 1].rest)
    ELSE /\ nread < Len(Scenario1) + MaxExtra
         /\ \E l \in ExtraLines : ReadLine(l.word, l.rest)

\* the sums printed at the end of an input that begins with Scenario1
ReportScenario ==
    /\ nread >= Len(Scenario1)
    /\ Report

ScenarioNext ==
    \/ ReadScenario
    \/ WhileTest
    \/ ForBody
    \/ ForElse
    \/ ReportScenario

ScenarioSpec == Init /\ [][ScenarioNext]_vars

----------------------------------------------------------------------------
(* Unit level: one method call on a cuboid *)

UnitCoords == 0 .. MaxCoord

UnitCuboids == Cuboids(UnitCoords)

UnitInit ==
    /\ self_pairs = <<>>
    /\ pending_pieces = <<>>
    /\ state = FALSE
    /\ piece = None
    /\ pairs = <<>>
    /\ idx = 0
    /\ pc = "unit"
    /\ nread = 0
    /\ instr = None
    /\ grid = {}
    /\ line = None
    /\ before = <<>>
    /\ prev_instr = None
    /\ seen = {}
    /\ pending_seen = <<>>
    /\ part1 = 0
    /\ part2 = 0
    /\ recv \in UnitCuboids
    /\ op = "none"
    /\ arg = None
    /\ ret = None

CallRemove(other) ==
    /\ op = "none"
    /\ op' = "remove"
    /\ arg' = other
    /\ ret' = remove_gen(recv, other)
    /\ UNCHANGED recv
    /\ UNCHANGED addVars

CallOverlap(other) ==
    /\ op = "none"
    /\ op' = "overlap"
    /\ arg' = other
    /\ ret' = overlap(recv, other)
    /\ UNCHANGED recv
    /\ UNCHANGED addVars

CallSplit(dim, val) ==
    /\ op = "none"
    /\ op' = "split"
    /\ arg' = <<dim, val>>
    /\ ret' = split(recv, dim, val)
    /\ UNCHANGED recv
    /\ UNCHANGED addVars

CallSOverlap(other) ==
    /\ op = "none"
    /\ op' = "s_overlap"
    /\ arg' = other
    /\ ret' = s_overlap(recv, other)
    /\ UNCHANGED recv
    /\ UNCHANGED addVars

\* Cuboid(recv.min, max), for any position max
CallCuboid(max) ==
    /\ op = "none"
    /\ op' = "Cuboid"
    /\ arg' = max
    /\ ret' = Cuboid(recv.min, max)
    /\ UNCHANGED recv
    /\ UNCHANGED addVars

UnitPositions == {Pos(x, y, z) : x \in UnitCoords, y \in UnitCoords, z \in UnitCoords}

UnitNext ==
    \/ \E other \in UnitCuboids : CallRemove(other)
    \/ \E other \in UnitCuboids : CallOverlap(other)
    \/ \E dim \in Dims, val \in -1 .. MaxCoord + 2 : CallSplit(dim, val)
    \/ \E other \in UnitCuboids : CallSOverlap(other)
    \/ \E max \in UnitPositions : CallCuboid(max)

UnitSpec == UnitInit /\ [][UnitNext]_vars

----------------------------------------------------------------------------
(* The driver on any lines, together with the unit level *)

\* a keyword that is neither on nor off
OtherWords == {"toggle"}

\* the next line of an input of at most MaxLines lines: any keyword, and
\* ranges whose bounds may be in either order
ReadAny ==
    /\ nread < MaxLines
    /\ \E word \in Words \cup OtherWords, rest \in Rests(InstrCoords) : ReadLine(word, rest)

\* a method call at the unit level
UnitCall == pc = "unit" /\ UnitNext

FullInit == Init \/ UnitInit

FullNext ==
    \/ ReadAny
    \/ WhileTest
    \/ ForBody
    \/ ForElse
    \/ Report
    \/ UnitCall

FullSpec == FullInit /\ [][FullNext]_vars

----------------------------------------------------------------------------
(* Properties of the partition *)

\* add has returned at least once and no call is in progress
Returned == pc \in {"read", "done"} /\ nread > 0

\* the cells covered by the entries of prs whose state is s
Covered(prs, s) ==
    UNION {Cells(prs[k][2]) : k \in {n \in 1 .. Len(prs) : prs[n][1] = s}}

Lit(prs) == Covered(prs, TRUE)

PairwiseDisjoint(prs) ==
    \A m, n \in 1 .. Len(prs) : m # n => Cells(prs[m][2]) \cap Cells(prs[n][2]) = {}

\* C1: after any sequence of add calls from the empty partition, the boxes
\* of every two distinct stored entries share no cell, whatever their states.
C1_Disjoint == Returned => PairwiseDisjoint(self_pairs)

C1_Witness ==
    /\ Returned
    /\ nread >= 2
    /\ Len(self_pairs) >= 4
    /\ \E m, n \in 1 .. Len(self_pairs) : self_pairs[m][1] # self_pairs[n][1]

\* C2: after any sequence of add calls, the union of the state=true boxes is
\* exactly the set of cells that are on in the reference grid, and the sum of
\* their sizes is the number of on cells of that grid.
C2_LitIsGrid ==
    Returned =>
        /\ Lit(self_pairs) = grid
        /\ SumSize(OnPieces(self_pairs)) = Cardinality(grid)

C2_Witness ==
    /\ Returned
    /\ nread >= 3
    /\ Len(OnPieces(self_pairs)) >= 3
    /\ grid # {}
    /\ \E k \in 1 .. Len(self_pairs) : ~self_pairs[k][1]

\* the lit volume inside box c
LitInside(prs, c) == Cardinality(Lit(prs) \cap Cells(c))

\* C3: after add(state, X) returns every cell of X is covered by a stored
\* entry with that state; after (on, X), (off, X) no lit volume is left in X.
C3_LastWriteWins ==
    Returned =>
        /\ Cells(instr[2]) \subseteq Covered(self_pairs, instr[1])
        /\ ~instr[1] => LitInside(self_pairs, instr[2]) = 0

C3_Witness ==
    /\ Returned
    /\ nread >= 2
    /\ ~instr[1]
    /\ grid # {}
    /\ \E k \in 1 .. Len(self_pairs) :
          /\ ~self_pairs[k][1]
          /\ self_pairs[k][2] # instr[2]
          /\ Cells(self_pairs[k][2]) \subseteq Cells(instr[2])

RECURSIVE SumOverlapSize(_, _)
SumOverlapSize(pieces, c) ==
    IF pieces = <<>> THEN 0
    ELSE size(overlap(Head(pieces), c)) + SumOverlapSize(Tail(pieces), c)

\* C4: the first number printed is the sum, over the state=true entries that
\* overlap the region -50..50, of the volume of the overlap of the entry's box
\* with the region: the number of on cells inside the region.
C4_RegionTotal ==
    pc = "done" =>
        /\ part1 = SumOverlapSize(InitPieces(self_pairs), init_cube)
        /\ part1 = Cardinality({cell \in grid : InCuboid(cell, init_cube)})

----------------------------------------------------------------------------
(* Properties of Cuboid.remove *)

\* the cells of the cuboids of a sequence
CellsOf(pieces) == UNION {Cells(pieces[k]) : k \in 1 .. Len(pieces)}

DisjointPieces(pieces) ==
    \A m, n \in 1 .. Len(pieces) : m # n => Cells(pieces[m]) \cap Cells(pieces[n]) = {}

Removed == op = "remove" /\ ret.raised = "none"

\* C5: the fragments of A.remove(B) cover exactly the cells of A not in B:
\* each lies inside A, they are pairwise disjoint, none overlaps
\* overlap(A, B), and every cell of A outside B is in a fragment.
C5_RemoveIsDifference ==
    op = "remove" =>
        /\ ret.raised = "none"
        /\ CellsOf(ret.yielded) = Cells(recv) \ Cells(arg)
        /\ \A k \in 1 .. Len(ret.yielded) : Cells(ret.yielded[k]) \subseteq Cells(recv)
        /\ DisjointPieces(ret.yielded)
        /\ \A k \in 1 .. Len(ret.yielded) :
              Cells(ret.yielded[k]) \cap (Cells(recv) \cap Cells(arg)) = {}

C5_Witness ==
    /\ Removed
    /\ Len(ret.yielded) >= 4
    /\ Cells(recv) \cap Cells(arg) # {}
    /\ ~(Cells(arg) \subseteq Cells(recv))

\* C6: size(A) is the sum of the sizes of the fragments of A.remove(B) plus
\* the size of overlap(A, B), counted as 0 when A and B do not overlap.
C6_VolumeConserved ==
    op = "remove" =>
        size(recv) = SumSize(ret.yielded)
                     + (IF overlap(recv, arg) = ValueError THEN 0
                        ELSE size(overlap(recv, arg)))

C6_Witness ==
    /\ Removed
    /\ overlap(recv, arg) # ValueError
    /\ size(overlap(recv, arg)) >= 2
    /\ Len(ret.yielded) >= 2
    /\ SumSize(ret.yielded) >= 6

\* C7: A.remove(B) yields at most 6 boxes.
C7_AtMostSix == op = "remove" => Len(ret.yielded) <= 6

C7_Witness == Removed /\ Len(ret.yielded) = 6

LexLeq(c, d) ==
    \/ c[1] < d[1]
    \/ c[1] = d[1] /\ c[2] < d[2]
    \/ c[1] = d[1] /\ c[2] = d[2] /\ c[3] <= d[3]

LexMin(S) == CHOOSE c \in S : \A d \in S : LexLeq(c, d)

\* the boxes inside S, within the cuboid within, whose min corner is c
BoxesFrom(c, S, within) ==
    {b \in {[min |-> Pos(c[1], c[2], c[3]), max |-> Pos(hx, hy, hz)] :
                hx \in c[1] .. within.max.x,
                hy \in c[2] .. within.max.y,
                hz \in c[3] .. within.max.z} :
        Cells(b) \subseteq S}

\* S is the union of at most k pairwise disjoint boxes. The first cell of S
\* (in lexicographic order) is the min corner of the box that holds it.
RECURSIVE CanPartition(_, _, _)
CanPartition(S, k, within) ==
    IF S = {} THEN TRUE
    ELSE IF k = 0 THEN FALSE
    ELSE \E b \in BoxesFrom(LexMin(S), S, within) :
            CanPartition(S \ Cells(b), k - 1, within)

\* C8: no set of pairwise disjoint boxes with fewer members than A.remove(B)
\* yields has the cells of A not in B as its union.
C8_Minimal ==
    (op = "remove" /\ Len(ret.yielded) > 0) =>
        ~CanPartition(Cells(recv) \ Cells(arg), Len(ret.yielded) - 1, recv)

C8_Witness ==
    /\ Removed
    /\ Len(ret.yielded) >= 5
    /\ CanPartition(Cells(recv) \ Cells(arg), Len(ret.yielded), recv)

\* C9: when A and B do not overlap, A.remove(B) yields exactly [A].
C9_DisjointNoOp ==
    (op = "remove" /\ Cells(recv) \cap Cells(arg) = {}) =>
        ret.raised = "none" /\ ret.yielded = <<recv>>

C9_Witness ==
    /\ Removed
    /\ Cells(recv) \cap Cells(arg) = {}
    /\ recv.min.x <= arg.max.x /\ arg.min.x <= recv.max.x
    /\ ret.yielded = <<recv>>

Contains(b, a) ==
    \A d \in Dims : b.min[d] <= a.min[d] /\ a.max[d] <= b.max[d]

\* C10: when B fully contains A (B = A included), A.remove(B) yields the
\* empty sequence.
C10_ContainedYieldsNothing ==
    (op = "remove" /\ Contains(arg, recv)) =>
        ret.raised = "none" /\ ret.yielded = <<>>

C10_Witness ==
    /\ Removed
    /\ Contains(arg, recv)
    /\ arg # recv
    /\ size(recv) >= 2
    /\ ret.yielded = <<>>

----------------------------------------------------------------------------
(* Properties of Cuboid.split and Cuboid.overlap *)

Raised(r) == r \in {ValueError, AssertionError, StopIteration}

\* the split plane lies in (min_d, max_d]
InRange(c, dim, val) == c.min[dim] < val /\ val <= c.max[dim]

\* the coordinate of a cell on axis dim
Coord(cell, dim) == CASE dim = "x" -> cell[1] [] dim = "y" -> cell[2] [] dim = "z" -> cell[3]

\* C11: for min.d < boundary <= max.d, split returns (left, right) with left =
\* box with max.d replaced by boundary-1 and right = box with min.d replaced by
\* boundary; they are disjoint, their union is box, and their sizes add up.
C11_SplitHalves ==
    (op = "split" /\ InRange(recv, arg[1], arg[2])) =>
        /\ ~Raised(ret)
        /\ ret.a = [min |-> recv.min, max |-> [recv.max EXCEPT ![arg[1]] = arg[2] - 1]]
        /\ ret.b = [min |-> [recv.min EXCEPT ![arg[1]] = arg[2]], max |-> recv.max]
        /\ Cells(ret.a) = {cell \in Cells(recv) : Coord(cell, arg[1]) < arg[2]}
        /\ Cells(ret.b) = {cell \in Cells(recv) : Coord(cell, arg[1]) >= arg[2]}
        /\ Cells(ret.a) \cap Cells(ret.b) = {}
        /\ Cells(ret.a) \cup Cells(ret.b) = Cells(recv)
        /\ size(ret.a) + size(ret.b) = size(recv)

C11_Witness ==
    /\ op = "split"
    /\ InRange(recv, arg[1], arg[2])
    /\ arg[1] = "y"
    /\ ~Raised(ret)
    /\ size(ret.a) >= 2 /\ size(ret.b) > size(ret.a)

\* C12: split raises ValueError and returns no boxes exactly when the boundary
\* is not in (min.d, max.d]: min.d and max.d + 1 are refused; min.d + 1 and
\* max.d are accepted (on an axis where the box is more than one cell wide).
C12_SplitRange ==
    op = "split" =>
        /\ (ret = ValueError) <=> ~InRange(recv, arg[1], arg[2])
        /\ InRange(recv, arg[1], arg[2]) => ~Raised(ret)
        /\ arg[2] = recv.min[arg[1]] => ret = ValueError
        /\ arg[2] = recv.max[arg[1]] + 1 => ret = ValueError
        /\ (arg[2] = recv.min[arg[1]] + 1 /\ recv.min[arg[1]] < recv.max[arg[1]])
              => ~Raised(ret)
        /\ (arg[2] = recv.max[arg[1]] /\ recv.min[arg[1]] < recv.max[arg[1]])
              => ~Raised(ret)

C12_Witness ==
    /\ op = "split"
    /\ ret = ValueError
    /\ arg[2] = recv.max[arg[1]] + 1
    /\ recv.min[arg[1]] < recv.max[arg[1]]

\* C13: overlap(a, b) succeeds exactly when a and b share a cell; it then
\* returns the box max(a.min.d, b.min.d) .. min(a.max.d, b.max.d), whose cells
\* are the common cells; otherwise it raises ValueError, and s_overlap
\* returns None.
C13_Overlap ==
    /\ op = "overlap" =>
          /\ (ret # ValueError) <=> (Cells(recv) \cap Cells(arg) # {})
          /\ ret # ValueError =>
                /\ \A d \in Dims :
                      /\ ret.min[d] = py_max(recv.min[d], arg.min[d])
                      /\ ret.max[d] = py_min(recv.max[d], arg.max[d])
                /\ Cells(ret) = Cells(recv) \cap Cells(arg)
    /\ op = "s_overlap" =>
          /\ (ret = None) <=> (Cells(recv) \cap Cells(arg) = {})
          /\ ret # None =>
                /\ ~Raised(ret)
                /\ Cells(ret) = Cells(recv) \cap Cells(arg)

C13_Witness ==
    /\ op = "overlap"
    /\ ret # ValueError
    /\ ret # recv /\ ret # arg
    /\ size(ret) >= 2

----------------------------------------------------------------------------
(* Further properties of the partition and of the driver *)

LitTotal(prs) == SumSize(OnPieces(prs))

\* the call of add that returned last repeated the call before it
Repeated == Returned /\ nread >= 2 /\ prev_instr = instr

\* C14: inserting (on, X) twice in a row gives the same total lit volume as
\* inserting it once, from any reachable partition.
C14_Idempotent ==
    (Repeated /\ instr[1]) => LitTotal(self_pairs) = LitTotal(before)

C14_Witness ==
    /\ Repeated
    /\ instr[1]
    /\ nread >= 3
    /\ Len(before) >= 3
    /\ \E k \in 1 .. Len(before) : ~before[k][1]

\* C15: scenario 1 (on 10..12, on 11..13, off 9..11, on 10..10, each on all
\* three axes) gives a total lit volume of 39.
C15_Scenario1 ==
    /\ (pc = "read" /\ nread = Len(Scenario1)) => LitTotal(self_pairs) = 39
    /\ (pc = "done" /\ nread = Len(Scenario1)) => part2 = 39

C15_Witness ==
    /\ pc = "done"
    /\ nread = Len(Scenario1)
    /\ part2 = LitTotal(self_pairs)
    /\ Cardinality(grid) = part2

\* the ranges of the line read last are well-formed
LineRangesOk == \A d \in Dims : line.rest[d][1] <= line.rest[d][2]

\* C16: a line whose keyword is neither on nor off is a parsing failure: it is
\* reported as an error and nothing of it is handed to the partition.
C16_BadKeywordRejected ==
    (line # None /\ line.word \notin Words) =>
        /\ pc = "parse_error"
        /\ pending_pieces = <<>>

ValidBox(c) == \A d \in Dims : c.min[d] <= c.max[d]

AllValid(pieces) == \A k \in 1 .. Len(pieces) : ValidBox(pieces[k])

AllValidPairs(prs) == \A k \in 1 .. Len(prs) : ValidBox(prs[k][2])

\* C17: a box with min.d > max.d on some axis is never a value: constructing
\* it fails, a line with a range whose lower bound is above its upper bound
\* is rejected before insertion, and every box stored in the partition or
\* returned by split, overlap or remove has min.d <= max.d on all three axes.
C17_NoInvalidBox ==
    /\ op = "Cuboid" =>
          /\ (\E d \in Dims : recv.min[d] > arg[d]) => ret = ValueError
          /\ ret # ValueError => ValidBox(ret)
    /\ (line # None /\ ~LineRangesOk) =>
          /\ pc = "parse_error"
          /\ pending_pieces = <<>>
    /\ AllValidPairs(self_pairs) /\ AllValidPairs(pairs) /\ AllValidPairs(pending_pieces)
    /\ piece # None => ValidBox(piece)
    /\ (op = "split" /\ ~Raised(ret)) => ValidBox(ret.a) /\ ValidBox(ret.b)
    /\ (op \in {"overlap", "s_overlap"} /\ ret # None /\ ~Raised(ret)) => ValidBox(ret)
    /\ op = "remove" => AllValid(ret.yielded)

C17_Witness ==
    /\ pc = "parse_error"
    /\ ~LineRangesOk
    /\ nread = 2
    /\ Len(self_pairs) >= 1

\* C18: a non-overlap is never propagated as a failure: add and remove end
\* without an exception (no ValueError, no failed assertion, no exhausted cut
\* iterator), and s_overlap returns None instead of raising.
C18_NoErrorEscapes ==
    /\ pc # "error"
    /\ pc = "parse_error" => ~LineRangesOk
    /\ op = "remove" => ret.raised = "none"
    /\ op = "s_overlap" =>
          /\ ~Raised(ret)
          /\ Cells(recv) \cap Cells(arg) = {} => ret = None

C18_Witness ==
    /\ Returned
    /\ nread = 2
    /\ Len(self_pairs) >= 3
    /\ \E k \in 1 .. Len(self_pairs) : Cells(self_pairs[k][2]) \cap Cells(instr[2]) = {}

\* the boxes recv and arg of a call have a cell in common
Overlapping == Cells(recv) \cap Cells(arg) /= {}

\* the common part of recv and arg, from its cells
Common ==
    LET cs == Cells(recv) \cap Cells(arg)
        lo(d) == CHOOSE v \in {Coord(c, d) : c \in cs} : \A c \in cs : v <= Coord(c, d)
        hi(d) == CHOOSE v \in {Coord(c, d) : c \in cs} : \A c \in cs : v >= Coord(c, d)
    IN  [min |-> Pos(lo("x"), lo("y"), lo("z")), max |-> Pos(hi("x"), hi("y"), hi("z"))]

\* the faces of the common part that lie strictly inside recv, as <<axis, side>>
InnerFaces ==
    {<<d, "low">> : d \in {e \in Dims : Common.min[e] > recv.min[e]}}
        \cup {<<d, "high">> : d \in {e \in Dims : Common.max[e] < recv.max[e]}}

\* C19: when A and B overlap, A.remove(B) has as many fragments as the
\* common part has faces strictly inside A (low face of axis d iff
\* overlap.min.d > A.min.d, high face iff overlap.max.d < A.max.d); a box
\* strictly inside A on all three axes leaves exactly 6 fragments.
C19_FragmentCount ==
    (op = "remove" /\ Overlapping) =>
        /\ ret.raised = "none"
        /\ Len(ret.yielded) = Cardinality(InnerFaces)
        /\ (\A d \in Dims : recv.min[d] < arg.min[d] /\ arg.max[d] < recv.max[d])
               => Len(ret.yielded) = 6

C19_Witness ==
    /\ Removed
    /\ \A d \in Dims : recv.min[d] < arg.min[d] /\ arg.max[d] < recv.max[d]
    /\ Cardinality(InnerFaces) = 6

\* a box given by its ranges on the three axes, each <<lowest, highest>>
Box(xr, yr, zr) == [min |-> Pos(xr[1], yr[1], zr[1]), max |-> Pos(xr[2], yr[2], zr[2])]

\* the six fragments of recv around the common part O, in the order of the cuts
SixFragments ==
    LET A == recv
        O == Common
    IN  << Box(<<A.min.x, O.min.x - 1>>, <<A.min.y, A.max.y>>, <<A.min.z, A.max.z>>),
           Box(<<O.min.x, A.max.x>>, <<A.min.y, O.min.y - 1>>, <<A.min.z, A.max.z>>),
           Box(<<O.min.x, A.max.x>>, <<O.min.y, A.max.y>>, <<A.min.z, O.min.z - 1>>),
           Box(<<O.max.x + 1, A.max.x>>, <<O.min.y, A.max.y>>, <<O.min.z, A.max.z>>),
           Box(<<O.min.x, O.max.x>>, <<O.max.y + 1, A.max.y>>, <<O.min.z, A.max.z>>),
           Box(<<O.min.x, O.max.x>>, <<O.min.y, O.max.y>>, <<O.max.z + 1, A.max.z>>) >>

\* C20: remove cuts in the fixed order x low, y low, z low, x high, y high,
\* z high, each cut on the remainder of the previous ones: with O the common
\* part of A and B, the fragments are, in this order and each only when
\* non-empty, the six boxes of SixFragments.
C20_FixedOrder ==
    (op = "remove" /\ Overlapping) => ret.yielded = SelectSeq(SixFragments, ValidBox)

C20_Witness ==
    /\ Removed
    /\ Overlapping
    /\ Len(ret.yielded) >= 4
    /\ recv.min.x < Common.min.x
    /\ recv.min.y < Common.min.y
    /\ size(ret.yielded[1]) > size(ret.yielded[2])

\* C21: for overlapping boxes A and B the cutting loop of A.remove(B) ends
\* after trying at most the six cuts, never asks for a seventh, and ends with
\* the remainder equal to overlap(A, B); the remainder is not yielded.
C21_LoopEnds ==
    (op = "remove" /\ Overlapping) =>
        /\ ret.raised = "none"
        /\ ret.tried <= 6
        /\ ret.remainder = Common
        /\ ret.remainder = overlap(recv, arg)
        /\ \A k \in 1 .. Len(ret.yielded) :
              Cells(ret.yielded[k]) \cap Cells(ret.remainder) = {}

C21_Witness ==
    /\ Removed
    /\ Overlapping
    /\ ret.tried = 6
    /\ Len(ret.yielded) = 1
    /\ ret.remainder # arg

\* the entry e overlaps the box X
Overlaps(e, X) == Cells(e[2]) \cap Cells(X) # {}

\* the positions in before of the entries that add(instr) has to leave alone
Kept == {k \in 1 .. Len(before) : ~Overlaps(before[k], instr[2]) \/ before[k][1] = instr[1]}

\* the position in before of the entry that e is, or is a fragment of; 0 if none
Origin(e) ==
    LET from == {k \in 1 .. Len(before) :
                    /\ before[k][1] = e[1]
                    /\ Cells(e[2]) \subseteq Cells(before[k][2])}
    IN  IF from = {} THEN 0 ELSE CHOOSE k \in from : TRUE

\* the number of leading entries of self.pairs that come from before
FromBefore ==
    Cardinality({j \in 1 .. Len(self_pairs) :
                    \A i \in 1 .. j : Origin(self_pairs[i]) # 0})

\* C22: add(state, X) leaves unchanged every stored entry that does not
\* overlap X or has the state of the instruction: it is still present with
\* the same state and box when add returns; the surviving entries keep their
\* relative order, and the pieces of the new instruction come only at the end.
C22_Frame ==
    Returned =>
        /\ \A k \in Kept : \E j \in 1 .. Len(self_pairs) : self_pairs[j] = before[k]
        /\ \A j \in 1 .. Len(self_pairs) :
              Origin(self_pairs[j]) \in Kept => self_pairs[j] = before[Origin(self_pairs[j])]
        /\ \A i, j \in 1 .. FromBefore :
              i < j => Origin(self_pairs[i]) <= Origin(self_pairs[j])
        /\ \A j \in FromBefore + 1 .. Len(self_pairs) :
              /\ Origin(self_pairs[j]) = 0
              /\ self_pairs[j][1] = instr[1]
              /\ Cells(self_pairs[j][2]) \subseteq Cells(instr[2])

C22_Witness ==
    /\ Returned
    /\ Cardinality(Kept) >= 2
    /\ \E k \in Kept : Overlaps(before[k], instr[2])
    /\ \E k \in Kept : ~Overlaps(before[k], instr[2])
    /\ \E k \in 1 .. Len(before) : k \notin Kept
    /\ FromBefore < Len(self_pairs)

\* the scan stands at a stored entry of the opposite state that overlaps piece
OppositeOverlap ==
    /\ pc = "for"
    /\ idx <= Len(self_pairs)
    /\ self_pairs[idx][1] # state
    /\ Overlaps(self_pairs[idx], piece)

\* the step taken from there: the entry is replaced by the fragments of
\* i_piece.remove(piece), with its state, and nothing else changes
OppositeStep ==
    OppositeOverlap =>
        LET i_state == self_pairs[idx][1]
            i_piece == self_pairs[idx][2]
            new == SubSeq(pairs', Len(pairs) + 1, Len(pairs'))
        IN  /\ pc' = "for"
            /\ idx' = idx + 1
            /\ piece' = piece
            /\ state' = state
            /\ pending_pieces' = pending_pieces
            /\ self_pairs' = self_pairs
            /\ Len(pairs') >= Len(pairs)
            /\ SubSeq(pairs', 1, Len(pairs)) = pairs
            /\ new = WithState(i_state, remove(i_piece, piece))
            /\ \A k \in 1 .. Len(new) : new[k][1] = i_state
            /\ PairwiseDisjoint(new)
            /\ Covered(new, i_state) = Cells(i_piece) \ Cells(piece)

\* no stored entry of the state opposite to the instruction overlaps its box
NoOppositeOverlap ==
    \A j \in 1 .. Len(self_pairs) :
        self_pairs[j][1] # instr[1] => ~Overlaps(self_pairs[j], instr[2])

\* C23: when a stored entry of the opposite state overlaps the current piece,
\* add replaces it, at its position, by the fragments of
\* stored_box.remove(piece), each with the stored entry's state, and leaves
\* the current piece as it is; hence after add(state, X) returns no stored
\* entry of the opposite state overlaps X.
C23_OppositeReplaced ==
    /\ [][OppositeStep]_vars
    /\ [](Returned => NoOppositeOverlap)

C23_Witness ==
    /\ Returned
    /\ \E j \in 1 .. Len(self_pairs) :
          /\ Origin(self_pairs[j]) # 0
          /\ Origin(self_pairs[j]) \notin Kept
          /\ self_pairs[j] # before[Origin(self_pairs[j])]
    /\ \E k \in 1 .. Len(before) :
          /\ k \notin Kept
          /\ \A j \in 1 .. Len(self_pairs) : Origin(self_pairs[j]) # k

\* the positions in before of the entries with the state of the
\* instruction whose box contains the box of the instruction
Subsuming ==
    {k \in 1 .. Len(before) :
        /\ before[k][1] = instr[1]
        /\ Cells(instr[2]) \subseteq Cells(before[k][2])}

\* C24: if the box of add(state, X) is contained in the box of one stored
\* entry with the same state, add leaves the partition exactly as it was
\* (same entries, same boxes, same order) and appends nothing.
C24_Subsumed == (Returned /\ Subsuming # {}) => self_pairs = before

C24_Witness ==
    /\ Returned
    /\ Len(before) >= 3
    /\ \E k \in Subsuming : k >= 2 /\ before[k][2] # instr[2]
    /\ self_pairs = before

\* the scan stands at an entry that the scan which produced the piece had
\* already passed (as it stood then, or a fragment that has replaced it since)
AtPassedEntry ==
    /\ pc = "for"
    /\ idx <= Len(self_pairs)
    /\ Cells(self_pairs[idx][2]) \subseteq seen

\* the step taken from there keeps the entry and does not cut the piece
PassedStep ==
    AtPassedEntry =>
        /\ pairs' = Append(pairs, self_pairs[idx])
        /\ piece' = piece
        /\ pending_pieces' = pending_pieces
        /\ pc' = "for"

\* C25: a fragment put on the work-list in the same-state case needs
\* reconciling only against the rest of the stored entries: when it is popped
\* and scanned it overlaps no entry that stood at or before the position of
\* the entry that produced it (nor a fragment that replaced such an entry), so
\* the scan from the start changes none of them and does not cut the fragment.
C25_OnlyTheRest ==
    /\ [](\A k \in 1 .. Len(pending_pieces) :
             Cells(pending_pieces[k][2]) \cap pending_seen[k] = {})
    /\ [](pc = "for" => Cells(piece) \cap seen = {})
    /\ [][PassedStep]_vars

C25_Witness ==
    /\ AtPassedEntry
    /\ idx >= 2
    /\ \A j \in 1 .. idx : Cells(self_pairs[j][2]) \subseteq seen
    /\ \E j \in 1 .. idx : \A k \in 1 .. Len(before) : self_pairs[j] # before[k]
    /\ \E j \in 1 .. idx : self_pairs[j][1] = state
    /\ idx < Len(self_pairs)

\* a call of add is running
InAdd == pc \in {"while", "for"}

\* the cells still to be placed: those of the work-list and of the piece in the scan
Unplaced ==
    SumSize([k \in 1 .. Len(pending_pieces) |-> pending_pieces[k][2]])
        + (IF pc = "for" THEN size(piece) ELSE 0)

\* what a running call of add has left to do, compared in this order: the
\* cells to place, the pop to do before the next scan, the entries to scan
Variant ==
    << Unplaced,
       IF pc = "while" THEN 1 ELSE 0,
       IF pc = "for" THEN Len(self_pairs) + 1 - idx ELSE 0 >>

LexLess(v, w) ==
    \/ v[1] < w[1]
    \/ v[1] = w[1] /\ v[2] < w[2]
    \/ v[1] = w[1] /\ v[2] = w[2] /\ v[3] < w[3]

\* a step of a running call either returns with the work-list empty or goes
\* on with a smaller variant; it never stops with an exception
AddProgress ==
    InAdd =>
        \/ pc' = "read" /\ pending_pieces' = <<>>
        \/ InAdd' /\ LexLess(Variant', Variant)

\* C26: add terminates for every reachable partition and every valid
\* (state, box): though the same-state case pushes fragments onto the pending
\* work-list, the work-list becomes empty and add returns. (Every step of a
\* running call lowers a triple of naturals in the lexicographic order.)
C26_AddTerminates ==
    /\ [](InAdd => \A n \in 1 .. 3 : Variant[n] \in Nat)
    /\ [](InAdd => pc = "while" \/ idx <= Len(self_pairs) + 1)
    /\ [][AddProgress]_vars

C26_Witness ==
    /\ Returned
    /\ nread = MaxInstr
    /\ Len(self_pairs) > Len(before) + 2
    /\ \E k \in 1 .. Len(before) : before[k][1] = instr[1] /\ Overlaps(before[k], instr[2])

----------------------------------------------------------------------------
(* The driver on boxes of one layer with wider ranges *)

WideCoords == init_cube.max.x .. init_cube.max.x + MaxOver + 1

\* well-formed lines whose boxes lie in the layer z = init_cube.max.z
LayerRests ==
    {rest \in ValidRests(WideCoords) : rest.z = <<init_cube.max.z, init_cube.max.z>>}

\* the next line of an input of at most MaxLines such lines
ReadLayer ==
    /\ nread < MaxLines
    /\ \E word \in Words, rest \in LayerRests : ReadLine(word, rest)

LayerNext ==
    \/ ReadLayer
    \/ WhileTest
    \/ ForBody
    \/ ForElse
    \/ Report

LayerSpec == Init /\ [][LayerNext]_vars

\* a step of the same-state case that cuts the piece and goes on with the scan
SameStateCut ==
    /\ pc = "for"
    /\ idx <= Len(self_pairs)
    /\ self_pairs[idx][1] = state
    /\ Overlaps(self_pairs[idx], piece)
    /\ pc' = "for"

\* the pieces pushed onto the work-list by a step
Pushed == SubSeq(pending_pieces', Len(pending_pieces) + 1, Len(pending_pieces'))

\* C27: in the same-state overlap case of add, the fragment kept as the
\* current piece for the rest of the scan (the first fragment of
\* piece.remove(stored_box)) is the largest by volume of the fragments, and
\* the smaller ones are deferred to the pending work-list.
C27_LargestKept ==
    [][SameStateCut => \A k \in 1 .. Len(Pushed) : size(piece') >= size(Pushed[k][2])]_vars

\* C28: for any reachable partition and any add(state, X), every cell
\* outside X that was covered by a state=true entry before is covered by a
\* state=true entry after, and every cell outside X that was not lit before
\* is not lit after.
C28_CellFrame ==
    Returned =>
        /\ Lit(before) \ Cells(instr[2]) \subseteq Lit(self_pairs)
        /\ (Lit(self_pairs) \ Cells(instr[2])) \subseteq Lit(before)

C28_Witness ==
    /\ Returned
    /\ Lit(before) \ Cells(instr[2]) # {}
    /\ Lit(before) \cap Cells(instr[2]) # {}
    /\ Covered(before, FALSE) \ Cells(instr[2]) # {}
    /\ Lit(self_pairs) # Lit(before)

\* C29: after any sequence of insertions the union of the boxes of all
\* stored entries, on and off together, is the union of the boxes of all
\* instructions inserted so far: it is empty before the first insertion and
\* each add(state, X) adds exactly the cells of X to it. Off instructions are
\* stored, not dropped: (off, X) inserted into the empty partition leaves the
\* one entry (false, X) and a lit total of 0.
C29_Coverage ==
    /\ nread = 0 => BoxCells(self_pairs) = {}
    /\ Returned => BoxCells(self_pairs) = BoxCells(before) \cup Cells(instr[2])
    /\ (Returned /\ before = <<>> /\ ~instr[1]) =>
          /\ self_pairs = << <<FALSE, instr[2]>> >>
          /\ LitTotal(self_pairs) = 0

C29_Witness ==
    /\ Returned
    /\ nread = MaxInstr
    /\ ~instr[1]
    /\ ~(Cells(instr[2]) \subseteq BoxCells(before))
    /\ Cells(instr[2]) \cap Lit(before) # {}
    /\ Cells(instr[2]) \cap Covered(before, FALSE) # {}

\* the pieces of the running add still to be placed: the piece in the scan
\* and the pending work-list
WorkList ==
    (IF pc = "for" THEN << <<state, piece>> >> ELSE <<>>) \o pending_pieces

\* the positions in self.pairs of the pieces that the running add has appended
Appended == {j \in 1 .. Len(self_pairs) : Origin(self_pairs[j]) = 0}

\* C30: inside one add(state, X), at every point of the loop, the current
\* piece and the pieces of the pending work-list are pairwise disjoint, lie
\* inside X, carry the state of the instruction, and are disjoint from every
\* piece of this instruction already appended to the partition.
C30_WorkList ==
    InAdd =>
        /\ PairwiseDisjoint(WorkList)
        /\ \A k \in 1 .. Len(WorkList) :
              /\ WorkList[k][1] = instr[1]
              /\ Cells(WorkList[k][2]) \subseteq Cells(instr[2])
              /\ \A j \in Appended : ~Overlaps(self_pairs[j], WorkList[k][2])

C30_Witness ==
    /\ pc = "for"
    /\ Len(pending_pieces) >= 2
    /\ Appended # {}
    /\ piece # instr[2]

====
